---- MODULE Spec2Model ----
(***************************************************************************)
(* Model of src/src/components/VideoThumbnail.tsx: one mounted instance of *)
(* the VideoThumbnail component, the browser objects it talks to (the      *)
(* IntersectionObserver, the document's fullscreen state, the <img> and    *)
(* <video> elements it renders) and the handlers it registers on them.     *)
(*                                                                         *)
(* A state of the model is a state between two browser tasks: React has    *)
(* committed the render of the last handler's state updates, so the set of *)
(* rendered elements (and videoRef.current) is a function of the state.    *)
(***************************************************************************)
EXTENDS Integers, Sequences, FiniteSets

\* ------------------------------------------------------------- bounds
MaxIndex == 11     \* poster indices 0..MaxIndex are tried (two decimal digits)
MaxClicks == 3     \* clicks on the widget body in one behaviour
MaxPending == 2    \* fullscreenchange events queued and not yet delivered

\* ------------------------------------------------------------- props
NoIndex == -1      \* thumbnailIndex?: number left out (undefined)
Indices == 0..MaxIndex
PathPrefix == "/thumbnails/"
PathSuffix == ".jpg"
NoPath == <<>>     \* getThumbnailPath() returned null

VARIABLES
    thumbnailIndex,  \* prop, fixed at construction
    isPlaying, isFullscreen, isInView, videoLoaded, isLoading,
    hasInteracted, thumbnailLoaded,          \* the seven useState flags
    mounted,         \* the instance is mounted
    observing,       \* the IntersectionObserver observes the container
    fsListener,      \* handleFullscreenChange is registered on document
    intersecting,    \* platform: the container intersects the viewport now
    fsStack,         \* platform: the document's fullscreen elements, top last
    fsPending,       \* platform: fullscreenchange events queued
    img,             \* the rendered <img>: "absent", "pending", "loaded", "failed"
    video,           \* the rendered <video> (videoRef.current), or NoVideo
    errorLog,        \* number of console.error calls
    warnLog,         \* number of console.warn calls
    clicks,          \* history: clicks on the widget body so far
    ended,           \* history: the click whose handler completed in this step
    lastEvent,       \* history: the handler or platform step taken last
    everIntersected, \* history: the observer reported isIntersecting once
    fsTrace          \* history: button entry, then external exit

flags == <<isPlaying, isFullscreen, isInView, videoLoaded, isLoading,
           hasInteracted, thumbnailLoaded>>
vars == <<thumbnailIndex, isPlaying, isFullscreen, isInView, videoLoaded,
          isLoading, hasInteracted, thumbnailLoaded, mounted, observing,
          fsListener, intersecting, fsStack, fsPending, img, video, errorLog,
          warnLog, clicks, ended, lastEvent, everIntersected, fsTrace>>

\* ------------------------------------------------------------- pure helpers
Digit(d) == CASE d = 0 -> "0" [] d = 1 -> "1" [] d = 2 -> "2" [] d = 3 -> "3"
              [] d = 4 -> "4" [] d = 5 -> "5" [] d = 6 -> "6" [] d = 7 -> "7"
              [] d = 8 -> "8" [] d = 9 -> "9"

\* Number-to-string of a template literal, for a non-negative integer.
RECURSIVE NumberToString(_)
NumberToString(n) ==
    IF n < 10 THEN <<Digit(n)>>
    ELSE NumberToString(n \div 10) \o <<Digit(n % 10)>>

\* JavaScript truthiness of an optional number: undefined and 0 are falsy.
Truthy(n) == n # NoIndex /\ n # 0

getThumbnailPath(index) ==
    IF Truthy(index) THEN <<PathPrefix>> \o NumberToString(index) \o <<PathSuffix>>
    ELSE NoPath

thumbnailPath == getThumbnailPath(thumbnailIndex)

\* ------------------------------------------------------------- the <video>
NoVideo == [exists |-> FALSE, src |-> FALSE, loads |-> 0, phase |-> "empty",
            paused |-> TRUE, promises |-> <<>>]

\* The element as the JSX creates it: no src attribute, preload="none".
NewVideo == [exists |-> TRUE, src |-> FALSE, loads |-> 0, phase |-> "empty",
             paused |-> TRUE, promises |-> <<>>]

RejectAll(ps) == [i \in 1..Len(ps) |-> [ps[i] EXCEPT !.outcome = "reject"]]

\* video.src = src; video.load(): a new load aborts the one in progress,
\* pauses the element and rejects its pending play promises.
SrcAndLoad(v) ==
    [v EXCEPT !.src = TRUE, !.loads = @ + 1, !.phase = "requested",
              !.paused = IF v.phase = "empty" THEN @ ELSE TRUE,
              !.promises = IF v.phase = "empty" THEN @ ELSE RejectAll(@)]

\* HTMLMediaElement.pause(): pending play promises are rejected.
Pause(v) == [v EXCEPT !.paused = TRUE, !.promises = RejectAll(@)]

\* HTMLMediaElement.play(): a promise the platform settles later; when the
\* platform allows playback the element leaves the paused state at once.
Play(v, outcome, wasPlaying) ==
    [v EXCEPT !.paused = IF outcome = "grant" THEN FALSE ELSE @,
              !.promises = Append(@, [outcome |-> outcome,
                                      wasPlaying |-> wasPlaying])]

\* ------------------------------------------------------------- render
videoRefIsNull == ~video.exists

\* The video element rendered only when the mount is in view, with its
\* source as an attribute: loading on visibility instead of on a click.
RenderVideo_OnView ==
    IF mounted /\ isInView
    THEN [NewVideo EXCEPT !.src = TRUE, !.loads = 1, !.phase = "requested"]
    ELSE NoVideo

\* The video element rendered without the hasInteracted gate.
RenderVideo_Ungated == IF mounted THEN NewVideo ELSE NoVideo

\* {hasInteracted && (<video ref={videoRef} ... preload="none" .../>)}:
\* the element this render asks for, as it is when first created.
RenderVideo == IF mounted /\ hasInteracted THEN NewVideo ELSE NoVideo

VideoRendered == RenderVideo.exists

\* {thumbnailPath && isInView && (<img .../>)}
PosterRendered == mounted /\ thumbnailPath # NoPath /\ isInView

\* {(!thumbnailLoaded && !thumbnailPath) && (<div ...LOADING.../>)}
FallbackRendered == mounted /\ ~thumbnailLoaded /\ thumbnailPath = NoPath

\* opacity of the video: videoLoaded && isPlaying ? 'opacity-100' : 'opacity-0'
VideoVisible == VideoRendered /\ videoLoaded /\ isPlaying

\* React commits the render that follows a handler: elements whose condition
\* became true are created, those whose condition became false are removed.
\* v and i are the elements as the handler's imperative calls left them.
Commit(v, i) ==
    /\ video' = IF VideoRendered' THEN (IF v.exists THEN v ELSE RenderVideo')
                ELSE NoVideo
    /\ img' = IF PosterRendered' THEN (IF i = "absent" THEN "pending" ELSE i)
              ELSE "absent"

NoClick == [valid |-> FALSE, wasPlaying |-> FALSE, platform |-> "grant",
            errors |-> 0, plays |-> 0]

\* ------------------------------------------------------------- Init
\* The state after the first render and both effects: flags at their
\* useState defaults, observer observing, fullscreenchange listener added.
Init ==
    /\ thumbnailIndex \in Indices \cup {NoIndex}
    /\ isPlaying = FALSE /\ isFullscreen = FALSE /\ isInView = FALSE
    /\ videoLoaded = FALSE /\ isLoading = FALSE /\ hasInteracted = FALSE
    /\ thumbnailLoaded = FALSE
    /\ mounted = TRUE /\ observing = TRUE /\ fsListener = TRUE
    /\ intersecting = FALSE
    /\ fsStack = <<>> /\ fsPending = 0
    /\ img = (IF PosterRendered THEN "pending" ELSE "absent")
    /\ video = RenderVideo
    /\ errorLog = 0 /\ warnLog = 0
    /\ clicks = 0 /\ ended = NoClick /\ lastEvent = "mount"
    /\ everIntersected = FALSE /\ fsTrace = "idle"

\* ------------------------------------------------------------- observer
\* The flag follows the entry and the observer is never disconnected.
ObserverCallback_Tracking(isIntersecting) ==
    /\ isInView' = isIntersecting
    /\ observing' = observing

\* The latch is set but observer.disconnect() is left out.
ObserverCallback_NoDisconnect(isIntersecting) ==
    /\ isInView' = (isInView \/ isIntersecting)
    /\ observing' = observing

\* ([entry]) => { if (entry.isIntersecting) { setIsInView(true);
\*                                            observer.disconnect(); } }
ObserverCallback(isIntersecting) ==
    /\ isInView' = (isInView \/ isIntersecting)
    /\ observing' = (observing /\ ~isIntersecting)

\* The observer delivers an entry (the first one after observe(), then one
\* per crossing of the threshold) while it observes the container.
ObserverNotify ==
    /\ mounted /\ observing
    /\ \E b \in BOOLEAN :
        /\ intersecting' = b
        /\ ObserverCallback(b)
        /\ everIntersected' = (everIntersected \/ b)
    /\ lastEvent' = "observer"
    /\ ended' = NoClick
    /\ UNCHANGED <<thumbnailIndex, isPlaying, isFullscreen, videoLoaded,
                   isLoading, hasInteracted, thumbnailLoaded, mounted,
                   fsListener, fsStack, fsPending, errorLog, warnLog, clicks,
                   fsTrace>>
    /\ Commit(video, img)

\* The container scrolls in or out of view with no observer watching.
ScrollUnobserved ==
    /\ mounted /\ ~observing
    /\ intersecting' = ~intersecting
    /\ lastEvent' = "scroll"
    /\ ended' = NoClick
    /\ UNCHANGED <<thumbnailIndex, flags, mounted, observing, fsListener,
                   fsStack, fsPending, img, video, errorLog, warnLog, clicks,
                   everIntersected, fsTrace>>

\* ------------------------------------------------------------- click
\* loadVideo(): if (videoRef.current && !videoLoaded) { src = ...; load() }
loadVideo(v) == IF v.exists /\ ~videoLoaded THEN SrcAndLoad(v) ELSE v

\* handleClick past its guard: lines 78-99, up to the await (or to the end,
\* on the pause path). outcome is how the platform would settle a play()
\* made by this click.
handleClickBody(outcome) ==
    /\ hasInteracted' = TRUE
    /\ IF isPlaying
       THEN /\ isPlaying' = FALSE
            /\ ended' = [valid |-> TRUE, wasPlaying |-> TRUE,
                         platform |-> outcome, errors |-> 0, plays |-> 0]
            /\ UNCHANGED <<isFullscreen, isInView, videoLoaded, isLoading,
                           thumbnailLoaded, errorLog>>
            /\ Commit(Pause(IF videoLoaded THEN video
                            ELSE loadVideo(video)), img)
       ELSE /\ isLoading' = TRUE
            /\ ended' = NoClick
            /\ UNCHANGED <<isPlaying, isFullscreen, isInView, videoLoaded,
                           thumbnailLoaded, errorLog>>
            /\ Commit(Play(IF videoLoaded THEN video
                           ELSE loadVideo(video), outcome, FALSE), img)

\* setIsLoading(true) moved in front of the guard on videoRef.current.
handleClick_LoadingBeforeGuard(outcome) ==
    IF videoRefIsNull
    THEN /\ isLoading' = TRUE
         /\ ended' = [valid |-> TRUE, wasPlaying |-> isPlaying,
                      platform |-> outcome, errors |-> 0, plays |-> 0]
         /\ UNCHANGED <<isPlaying, isFullscreen, isInView, videoLoaded,
                        hasInteracted, thumbnailLoaded, errorLog>>
         /\ Commit(video, img)
    ELSE handleClickBody(outcome)

\* handleClick up to its await (or to its end, on the other two paths).
handleClick(outcome) ==
    IF videoRefIsNull
    THEN \* if (!videoRef.current) return;
         /\ ended' = [valid |-> TRUE, wasPlaying |-> isPlaying,
                      platform |-> outcome, errors |-> 0, plays |-> 0]
         /\ UNCHANGED <<flags, errorLog>>
         /\ Commit(video, img)
    ELSE handleClickBody(outcome)

\* onClick={handleClick} on the container.
ContainerClick ==
    /\ mounted /\ clicks < MaxClicks
    /\ clicks' = clicks + 1
    /\ lastEvent' = "click"
    /\ UNCHANGED <<thumbnailIndex, mounted, observing, fsListener,
                   intersecting, fsStack, fsPending, warnLog,
                   everIntersected, fsTrace>>
    /\ \E outcome \in {"grant", "reject"} : handleClick(outcome)

\* The rest of handleClick, after await videoRef.current.play() settles.
playSettled ==
    LET p == Head(video.promises)
        v == [video EXCEPT !.promises = Tail(@)]
    IN /\ IF p.outcome = "grant"
          THEN /\ isPlaying' = TRUE
               /\ isLoading' = FALSE
               /\ errorLog' = errorLog
          ELSE /\ isLoading' = FALSE
               /\ errorLog' = errorLog + 1
               /\ isPlaying' = isPlaying
       /\ ended' = [valid |-> TRUE, wasPlaying |-> p.wasPlaying,
                    platform |-> p.outcome,
                    errors |-> IF p.outcome = "grant" THEN 0 ELSE 1,
                    plays |-> 1]
       /\ lastEvent' = "playSettled"
       /\ UNCHANGED <<thumbnailIndex, isFullscreen, isInView, videoLoaded,
                      hasInteracted, thumbnailLoaded, mounted, observing,
                      fsListener, intersecting, fsStack, fsPending, warnLog,
                      clicks, everIntersected, fsTrace>>
       /\ Commit(v, img)

\* ------------------------------------------------------------- <img>
\* onLoad={() => setThumbnailLoaded(true)}
imgOnLoad ==
    /\ thumbnailLoaded' = TRUE
    /\ lastEvent' = "imgLoad"
    /\ ended' = NoClick
    /\ UNCHANGED <<thumbnailIndex, isPlaying, isFullscreen, isInView,
                   videoLoaded, isLoading, hasInteracted, mounted, observing,
                   fsListener, intersecting, fsStack, fsPending, errorLog,
                   warnLog, clicks, everIntersected, fsTrace>>
    /\ Commit(video, "loaded")

\* onError={() => { console.warn(...); setThumbnailLoaded(false); }}
imgOnError ==
    /\ warnLog' = warnLog + 1
    /\ thumbnailLoaded' = FALSE
    /\ lastEvent' = "imgError"
    /\ ended' = NoClick
    /\ UNCHANGED <<thumbnailIndex, isPlaying, isFullscreen, isInView,
                   videoLoaded, isLoading, hasInteracted, mounted, observing,
                   fsListener, intersecting, fsStack, fsPending, errorLog,
                   clicks, everIntersected, fsTrace>>
    /\ Commit(video, "failed")

\* ------------------------------------------------------------- <video>
\* A handler of the video element: its updates of the flags and the log,
\* with the element left as v.
videoHandler(name, v, playing, loading, loaded, errors) ==
    /\ isPlaying' = playing
    /\ isLoading' = loading
    /\ videoLoaded' = loaded
    /\ errorLog' = errorLog + errors
    /\ lastEvent' = name
    /\ ended' = NoClick
    /\ UNCHANGED <<thumbnailIndex, isFullscreen, isInView, hasInteracted,
                   thumbnailLoaded, mounted, observing, fsListener,
                   intersecting, fsStack, fsPending, warnLog, clicks,
                   everIntersected, fsTrace>>
    /\ Commit(v, img)

\* onLoadedData={() => setVideoLoaded(true)}
onLoadedData ==
    videoHandler("loadeddata", [video EXCEPT !.phase = "data"],
                 isPlaying, isLoading, TRUE, 0)

\* onPlay={() => { setIsPlaying(true); setIsLoading(false); }}
onPlay ==
    videoHandler("play", [video EXCEPT !.paused = FALSE],
                 TRUE, FALSE, videoLoaded, 0)

\* onPause={() => setIsPlaying(false)}
onPause == videoHandler("pause", Pause(video), FALSE, isLoading, videoLoaded, 0)

\* onEnded={() => setIsPlaying(false)}
onEnded ==
    videoHandler("ended", [video EXCEPT !.paused = TRUE],
                 FALSE, isLoading, videoLoaded, 0)

\* onLoadStart={() => setIsLoading(true)}
onLoadStart ==
    videoHandler("loadstart", [video EXCEPT !.phase = "loading"],
                 isPlaying, TRUE, videoLoaded, 0)

\* onCanPlay={() => setIsLoading(false)}
onCanPlay ==
    videoHandler("canplay", [video EXCEPT !.phase = "ready"],
                 isPlaying, FALSE, videoLoaded, 0)

\* onError={() => { setIsLoading(false); console.error(...); }}
onError ==
    videoHandler("error", [video EXCEPT !.phase = "error"],
                 isPlaying, FALSE, videoLoaded, 1)

\* ------------------------------------------------------------- dispatch
\* The events the platform can deliver to the elements that are rendered.
ImgEvents == IF img = "pending" THEN {"load", "error"} ELSE {}

VideoEvents ==
    IF ~video.exists THEN {}
    ELSE (IF video.promises # <<>> THEN {"promise"} ELSE {})
         \cup (IF video.phase = "requested" THEN {"loadstart", "error"} ELSE {})
         \cup (IF video.phase = "loading" THEN {"loadeddata", "error"} ELSE {})
         \cup (IF video.phase = "data" THEN {"canplay"} ELSE {})
         \cup (IF video.src /\ video.phase # "error" /\ video.paused
               THEN {"play"} ELSE {})
         \cup (IF ~video.paused THEN {"pause"} ELSE {})
         \cup (IF ~video.paused /\ video.phase = "ready"
               THEN {"ended"} ELSE {})

DeliverableEvents ==
    {<<"img", e>> : e \in ImgEvents} \cup {<<"video", e>> : e \in VideoEvents}

Dispatch(e) ==
    CASE e = <<"img", "load">> -> imgOnLoad
      [] e = <<"img", "error">> -> imgOnError
      [] e = <<"video", "promise">> -> playSettled
      [] e = <<"video", "loadstart">> -> onLoadStart
      [] e = <<"video", "loadeddata">> -> onLoadedData
      [] e = <<"video", "canplay">> -> onCanPlay
      [] e = <<"video", "error">> -> onError
      [] e = <<"video", "play">> -> onPlay
      [] e = <<"video", "pause">> -> onPause
      [] e = <<"video", "ended">> -> onEnded

\* The platform delivers one event of a rendered element to its handler.
ElementEvent ==
    /\ mounted
    /\ \E e \in DeliverableEvents : Dispatch(e)

\* ------------------------------------------------------------- fullscreen
NoElement == "none"
fullscreenElement == IF fsStack = <<>> THEN NoElement ELSE fsStack[Len(fsStack)]

Without(s, x) == SelectSeq(s, LAMBDA y : y # x)
Pop(s) == SubSeq(s, 1, Len(s) - 1)

\* toggleFullscreen; granted is the platform's answer to requestFullscreen.
toggleFullscreen(granted) ==
    IF ~isFullscreen
    THEN \* containerRef.current?.requestFullscreen?.()
         IF granted /\ fullscreenElement # "container"
         THEN /\ fsStack' = Append(Without(fsStack, "container"), "container")
              /\ fsPending' = fsPending + 1
              /\ fsTrace' = "requested"
         ELSE UNCHANGED <<fsStack, fsPending, fsTrace>>
    ELSE \* document.exitFullscreen()
         IF fsStack # <<>>
         THEN /\ fsStack' = Pop(fsStack)
              /\ fsPending' = fsPending + 1
              /\ fsTrace' = "idle"
         ELSE UNCHANGED <<fsStack, fsPending, fsTrace>>

\* The button without e.stopPropagation(): the click bubbles to the
\* container and handleClick runs after toggleFullscreen.
FullscreenButtonClick_Propagates ==
    /\ mounted /\ fsPending < MaxPending /\ clicks < MaxClicks
    /\ \E granted \in BOOLEAN : toggleFullscreen(granted)
    /\ lastEvent' = "fsButton"
    /\ clicks' = clicks + 1
    /\ UNCHANGED <<thumbnailIndex, mounted, observing, fsListener,
                   intersecting, warnLog, everIntersected>>
    /\ \E outcome \in {"grant", "reject"} : handleClick(outcome)

\* onClick={(e) => { e.stopPropagation(); toggleFullscreen(); }}
FullscreenButtonClick ==
    /\ mounted /\ fsPending < MaxPending
    /\ \E granted \in BOOLEAN : toggleFullscreen(granted)
    /\ lastEvent' = "fsButton"
    /\ ended' = NoClick
    /\ UNCHANGED <<thumbnailIndex, flags, mounted, observing, fsListener,
                   intersecting, img, video, errorLog, warnLog, clicks,
                   everIntersected>>

\* The flag flipped on every event instead of read from the document.
handleFullscreenChange_Toggle == isFullscreen' = ~isFullscreen

\* const handleFullscreenChange = () =>
\*     setIsFullscreen(!!document.fullscreenElement);
handleFullscreenChange == isFullscreen' = (fullscreenElement # NoElement)

FullscreenChange ==
    /\ mounted /\ fsListener /\ fsPending > 0
    /\ handleFullscreenChange
    /\ fsPending' = fsPending - 1
    /\ fsTrace' = IF fsTrace = "requested" /\ fullscreenElement = "container"
                  THEN "shown" ELSE fsTrace
    /\ lastEvent' = "fullscreenchange"
    /\ ended' = NoClick
    /\ UNCHANGED <<thumbnailIndex, isPlaying, isInView, videoLoaded, isLoading,
                   hasInteracted, thumbnailLoaded, mounted, observing,
                   fsListener, intersecting, fsStack, errorLog, warnLog,
                   clicks, everIntersected>>
    /\ Commit(video, img)

\* The user leaves fullscreen with the browser's own control (Escape).
ExternalExit ==
    /\ mounted /\ fsStack # <<>> /\ fsPending < MaxPending
    /\ fsStack' = <<>>
    /\ fsPending' = fsPending + 1
    /\ fsTrace' = IF fsTrace = "shown" THEN "escaped" ELSE "idle"
    /\ lastEvent' = "escape"
    /\ ended' = NoClick
    /\ UNCHANGED <<thumbnailIndex, flags, mounted, observing, fsListener,
                   intersecting, img, video, errorLog, warnLog, clicks,
                   everIntersected>>

\* Another element of the document enters fullscreen.
OtherEntersFullscreen ==
    /\ mounted /\ fullscreenElement # "other" /\ fsPending < MaxPending
    /\ fsStack' = Append(Without(fsStack, "other"), "other")
    /\ fsPending' = fsPending + 1
    /\ fsTrace' = "idle"
    /\ lastEvent' = "otherFullscreen"
    /\ ended' = NoClick
    /\ UNCHANGED <<thumbnailIndex, flags, mounted, observing, fsListener,
                   intersecting, img, video, errorLog, warnLog, clicks,
                   everIntersected>>

\* ------------------------------------------------------------- unmount
\* The cleanups of both effects run and the elements leave the document.
Unmount ==
    /\ mounted
    /\ mounted' = FALSE
    /\ observing' = FALSE
    /\ fsListener' = FALSE
    /\ fsStack' = Without(fsStack, "container")
    /\ lastEvent' = "unmount"
    /\ ended' = NoClick
    /\ UNCHANGED <<thumbnailIndex, flags, intersecting, fsPending, errorLog,
                   warnLog, clicks, everIntersected, fsTrace>>
    /\ Commit(video, img)

Next ==
    \/ ObserverNotify
    \/ ScrollUnobserved
    \/ ContainerClick
    \/ ElementEvent
    \/ FullscreenButtonClick
    \/ FullscreenChange
    \/ ExternalExit
    \/ OtherEntersFullscreen
    \/ Unmount

Spec == Init /\ [][Next]_vars

\* ------------------------------------------------------------- claims
\* C1: from a state with isPlaying false, a click whose playback request the
\* platform grants ends with isPlaying true and isLoading false. (ended is
\* the click whose handler completed in the step into this state.)
C1_GrantedClickPlays ==
    (ended.valid /\ ~ended.wasPlaying /\ ended.platform = "grant")
        => (isPlaying /\ ~isLoading)

\* C2: every click on the widget body leaves hasInteracted true, the first
\* click after mount included.
C2_ClickSetsHasInteracted == (lastEvent = "click") => hasInteracted

\* C3: the video element is rendered only if hasInteracted is true.
C3_VideoOnlyAfterInteraction == video.exists => hasInteracted

\* C3 witness: the widget has been clicked and scrolled into view, and
\* hasInteracted is false with no video element rendered.
C3_Witness ==
    mounted /\ clicks > 0 /\ isInView /\ ~hasInteracted /\ ~video.exists

\* C4: from a state with isPlaying false, a click whose playback request the
\* platform rejects ends with isPlaying false and isLoading false, with
\* exactly one error logged for it and one play() call, no retry.
C4_RejectedClickLogsOnce ==
    (ended.valid /\ ~ended.wasPlaying /\ ended.platform = "reject")
        => (~isPlaying /\ ~isLoading /\ ended.errors = 1 /\ ended.plays = 1)

\* C6: while no click on the widget has occurred, the media source is not
\* assigned and load() has not been called, whatever isInView is.
C6_NoTransferBeforeClick == (clicks = 0) => (~video.src /\ video.loads = 0)

\* C6 witness: the widget is in view, never clicked, and nothing is loaded.
C6_Witness ==
    mounted /\ clicks = 0 /\ isInView /\ intersecting /\ ~video.src
    /\ video.loads = 0

\* C7: for an instance with a poster index, the poster image is rendered
\* exactly when the observer has reported isIntersecting since mount.
C7_PosterIffIntersected ==
    (mounted /\ thumbnailIndex # NoIndex)
        => (PosterRendered <=> everIntersected)

\* C8: after every fullscreenchange event isFullscreen equals whether the
\* document has a fullscreen element; and once the widget entered fullscreen
\* by its button and was shown so, an external exit whose event has been
\* delivered leaves isFullscreen false.
C8_FullscreenMirrorsDocument ==
    /\ (lastEvent = "fullscreenchange")
           => (isFullscreen <=> (fullscreenElement # NoElement))
    /\ (mounted /\ fsTrace = "escaped" /\ fsPending = 0) => ~isFullscreen

\* C8 witness: entered by the button, shown fullscreen, left by the
\* browser's own control, and the event of that exit has been handled.
C8_Witness ==
    /\ fsTrace = "escaped" /\ lastEvent = "fullscreenchange"
    /\ fsPending = 0 /\ fullscreenElement = NoElement /\ ~isFullscreen

\* C10: for an instance with a poster index, when the poster image signals
\* a load error a warning is logged, thumbnailLoaded is false and the
\* fallback placeholder panel is rendered.
C10_PosterErrorShowsFallback ==
    (lastEvent = "imgError" /\ thumbnailIndex # NoIndex)
        => (warnLog >= 1 /\ ~thumbnailLoaded /\ FallbackRendered)

\* C11: with other instances or elements on the document, isFullscreen is
\* true only when this instance's own container is the fullscreen element
\* (once the queued fullscreenchange events have been handled).
C11_FullscreenIsOwnContainer ==
    (mounted /\ fsPending = 0 /\ isFullscreen)
        => (fullscreenElement = "container")

\* C12: a click on the fullscreen button leaves isPlaying, isLoading,
\* hasInteracted and videoLoaded unchanged, makes no call on the video
\* element and does not run the container's click handler.
C12_ButtonDoesNotReachPlayToggle ==
    [][(lastEvent' = "fsButton")
         => UNCHANGED <<isPlaying, isLoading, hasInteracted, videoLoaded,
                        video, clicks>>]_vars

\* C12 witness: the button has just been clicked after the widget body was
\* clicked, and the button's request put the container in fullscreen.
C12_Witness ==
    /\ lastEvent = "fsButton" /\ clicks > 0
    /\ fullscreenElement = "container" /\ fsPending > 0

\* C13: for every numeric poster index n, 0 included, the derived path is
\* /thumbnails/n.jpg, and it is none only when no index is supplied.
C13_PathForEveryIndex ==
    /\ (thumbnailIndex # NoIndex)
           => /\ Len(thumbnailPath) >= 3
              /\ Head(thumbnailPath) = "/thumbnails/"
              /\ thumbnailPath[Len(thumbnailPath)] = ".jpg"
              /\ SubSeq(thumbnailPath, 2, Len(thumbnailPath) - 1)
                     = (IF thumbnailIndex < 10
                        THEN <<Digit(thumbnailIndex)>>
                        ELSE <<Digit(thumbnailIndex \div 10),
                               Digit(thumbnailIndex % 10)>>)
    /\ (thumbnailPath = NoPath) => (thumbnailIndex = NoIndex)

\* C14: isInView and hasInteracted are one-way latches: no step takes
\* either of them from true to false.
C14_Latches ==
    [][(isInView => isInView') /\ (hasInteracted => hasInteracted')]_vars

\* C14 witness: the latch is set, the observer is gone, the container has
\* scrolled back out of view and the widget has been clicked since.
C14_Witness ==
    mounted /\ isInView /\ ~intersecting /\ ~observing /\ clicks > 0

\* C18: the observer observes exactly between mount and the earlier of the
\* first reported intersection and unmount, and after unmount neither the
\* observer nor the fullscreenchange listener remains registered.
C18_ObserverOneShotAndReleased ==
    /\ observing <=> (mounted /\ ~everIntersected)
    /\ ~mounted => (~observing /\ ~fsListener)
    /\ (lastEvent = "observer") => (mounted /\ (observing <=> ~isInView))

\* C18 witness: the observer reported an intersection, then the instance
\* was unmounted; nothing is registered any more.
C18_Witness ==
    ~mounted /\ everIntersected /\ isInView /\ ~observing /\ ~fsListener

\* C19: while hasInteracted is false, isPlaying, isLoading and videoLoaded
\* are all false.
C19_NoPlaybackStateBeforeInteraction ==
    ~hasInteracted => (~isPlaying /\ ~isLoading /\ ~videoLoaded)

\* C19 witness: the widget body has been clicked with either answer of the
\* platform, and hasInteracted and the three playback flags are still false.
C19_Witness ==
    /\ mounted /\ clicks = MaxClicks /\ lastEvent = "click"
    /\ ~hasInteracted /\ ~isPlaying /\ ~isLoading /\ ~videoLoaded

====
